---------------------------- MODULE Spec2Model ----------------------------
(***************************************************************************)
(* Model of serve.py: the Python wrapper (install, build, environment,     *)
(* server start, exit status) and the static file server it runs with      *)
(* `node -e` (request handler, favicon branch, fs.access / fs.readFile     *)
(* callbacks, server.listen).                                              *)
(*                                                                         *)
(* A file name is a sequence of tokens, the dot being a token of its own   *)
(* (app.js is <<"app", ".", "js">>); a URL and a filesystem path are       *)
(* sequences of such names (/assets/icons/favicon.ico has three).          *)
(***************************************************************************)
EXTENDS Integers, Sequences, FiniteSets, TLC

\* ------------------------------------------------------------------ bounds

\* Requests the server accepts in one run (they may all be in flight at once).
NumRequests == 2

\* Files another process removes while the server runs.
MaxUnlinks == 1

\* ------------------------------------------------- constants of the script

PORT == 5000

HOST == "0.0.0.0"

MIME_TYPES ==
    (<<".", "html">> :> "text/html") @@
    (<<".", "js">> :> "application/javascript") @@
    (<<".", "css">> :> "text/css") @@
    (<<".", "json">> :> "application/json") @@
    (<<".", "png">> :> "image/png") @@
    (<<".", "jpg">> :> "image/jpeg") @@
    (<<".", "jpeg">> :> "image/jpeg") @@
    (<<".", "gif">> :> "image/gif") @@
    (<<".", "svg">> :> "image/svg+xml") @@
    (<<".", "ico">> :> "image/x-icon") @@
    (<<".", "wav">> :> "audio/wav") @@
    (<<".", "mp3">> :> "audio/mpeg") @@
    (<<".", "webp">> :> "image/webp") @@
    (<<".", "webmanifest">> :> "application/manifest+json")

\* ------------------------------------------------------- names and paths

IndexName == <<"index", ".", "html">>

FaviconName == <<"favicon", ".", "ico">>

AppName == <<"app", ".", "js">>

LogoName == <<"LOGO", ".", "PNG">>

DataName == <<"data", ".", "xyz">>

MissingName == <<"missing", ".", "png">>

DirName == <<"assets">>

IconsName == <<"icons">>

DotDot == <<"..">>

\* req.url values the clients send.
UrlRoot == <<>>

UrlFavicon == <<FaviconName>>

UrlApp == <<AppName>>

UrlLogo == <<LogoName>>

UrlData == <<DataName>>

UrlMissing == <<MissingName>>

UrlDir == <<DirName>>

UrlDotDot == <<DirName, DotDot, AppName>>

Urls == {UrlRoot, UrlFavicon, UrlApp, UrlLogo, UrlData, UrlMissing, UrlDir, UrlDotDot}

\* path.join: the segments normalised, ".." removing the segment before it
\* (and staying when there is none, the root being the relative ".").
RECURSIVE Normalize(_, _)
Normalize(done, rest) ==
    IF rest = <<>> THEN done
    ELSE IF Head(rest) = DotDot
         THEN IF done # <<>> /\ done[Len(done)] # DotDot
              THEN Normalize(SubSeq(done, 1, Len(done) - 1), Tail(rest))
              ELSE Normalize(Append(done, DotDot), Tail(rest))
         ELSE Normalize(Append(done, Head(rest)), Tail(rest))

PathJoin(parts) == Normalize(<<>>, parts)

\* path.join(__dirname, req.url === '/' ? 'index.html' : req.url)
ResolvePath(url) == PathJoin(IF url = UrlRoot THEN <<IndexName>> ELSE url)

IndexPath == PathJoin(<<IndexName>>)

FaviconPath == PathJoin(<<DirName, IconsName, FaviconName>>)

\* LowerTok leaving the case as it is.
LowerTokKeepCase(t) == t

\* String.prototype.toLowerCase on one token.
LowerTok(t) ==
    CASE t = "PNG" -> "png"
      [] t = "LOGO" -> "logo"
      [] OTHER -> t

ToLowerCase(s) == [i \in 1..Len(s) |-> LowerTok(s[i])]

\* Index of the last dot of a name, 0 when it has none.
LastDot(name) ==
    LET dots == {i \in 1..Len(name) : name[i] = "."}
    IN  IF dots = {} THEN 0 ELSE CHOOSE i \in dots : \A j \in dots : j <= i

\* path.extname: from the last dot of the last segment to its end; empty when
\* there is no dot or the only dot starts the name.
ExtName(p) ==
    IF p = <<>> THEN <<>>
    ELSE LET base == p[Len(p)]
             i == LastDot(base)
         IN  IF i <= 1 THEN <<>> ELSE SubSeq(base, i, Len(base))

\* MIME_TYPES[extname] || 'application/octet-stream'
ContentTypeOf(p) ==
    LET extname == ToLowerCase(ExtName(p))
    IN  IF extname \in DOMAIN MIME_TYPES THEN MIME_TYPES[extname]
        ELSE "application/octet-stream"

\* ------------------------------------------------------------ filesystem

\* What a path names: nothing, a readable file, a file the server may not
\* read, or a directory.
Kinds == {"none", "file", "noperm", "dir"}

RootFaviconPath == PathJoin(UrlFavicon)

AppPath == PathJoin(UrlApp)

FsPaths ==
    {IndexPath, RootFaviconPath, FaviconPath, AppPath, PathJoin(UrlLogo),
     PathJoin(UrlData), PathJoin(UrlDir), PathJoin(<<DirName, IconsName>>)}

\* The directory contents the server may be started in.
FsChoices ==
    {[p \in FsPaths |->
        CASE p = IndexPath -> i
          [] p = RootFaviconPath -> f
          [] p = FaviconPath -> a
          [] p = AppPath -> j
          [] p = PathJoin(UrlDir) -> "dir"
          [] p = PathJoin(<<DirName, IconsName>>) -> "dir"
          [] OTHER -> "file"] :
     i \in {"file", "none", "noperm"}, f \in {"file", "none"},
     a \in {"file", "none", "noperm"}, j \in {"file", "noperm"}}

VARIABLES
    pyPc,            \* position of main() in the Python wrapper
    exitStatus,      \* exit status of the wrapper, -1 while it runs
    nodeModules,     \* os.path.exists("node_modules")
    dist,            \* os.path.exists("dist")
    installResult,   \* "pending", "skipped", "ok", "failed"
    buildResult,     \* "pending", "skipped", "ok", "failed"
    envPort,         \* os.environ PORT
    envHost,         \* os.environ HOST
    envPortAtStart,  \* PORT as the wrapper found it when it started
    nodeState,       \* "notstarted", "starting", "listening", "exited"
    nodeExit,        \* exit status of the node child, -1 while it runs
    boundPort,       \* port the server listens on, 0 when none
    boundHost,       \* host the server listens on
    fs,              \* the server root: path -> kind
    unlinks,         \* files removed so far by other processes
    req              \* the requests: position in the handler and response

vars ==
    <<pyPc, exitStatus, nodeModules, dist, installResult, buildResult, envPort,
      envHost, envPortAtStart, nodeState, nodeExit, boundPort, boundHost, fs,
      unlinks, req>>

wrapperVars ==
    <<pyPc, exitStatus, nodeModules, dist, installResult, buildResult, envPort,
      envHost, envPortAtStart>>

Requests == 1..NumRequests

EnvPorts == {"unset", "5000", "8080"}

Kind(p) == IF p \in DOMAIN fs THEN fs[p] ELSE "none"

\* The bytes of the file at p: files at different paths differ.
Content(p) == [prefix |-> "", code |-> "", file |-> p]

\* `Server Error: ${err.code}`
ErrorBody(code) == [prefix |-> "Server Error: ", code |-> code, file |-> <<>>]

NoBody == [prefix |-> "", code |-> "", file |-> <<>>]

\* The error code of opening and reading p, "none" when the read succeeds.
ReadError(p) ==
    CASE Kind(p) = "file" -> "none"
      [] Kind(p) = "none" -> "ENOENT"
      [] Kind(p) = "dir" -> "EISDIR"
      [] Kind(p) = "noperm" -> "EACCES"

IdleRequest ==
    [pc |-> "idle", url |-> <<>>, filePath |-> <<>>, existed |-> FALSE,
     contentType |-> "", status |-> 0, header |-> "", body |-> NoBody,
     err |-> "none"]

InFlight(r) == req[r].pc \in {"access", "read", "stream"}

\* ------------------------------------------------------- Python wrapper

\* if not os.path.exists("node_modules"): npm install, exit 1 when it fails
InstallDependencies ==
    /\ pyPc = "install"
    /\ IF nodeModules
       THEN /\ installResult' = "skipped"
            /\ pyPc' = "build"
            /\ UNCHANGED <<nodeModules, exitStatus>>
       ELSE \E ok \in BOOLEAN :
              IF ok
              THEN /\ installResult' = "ok"
                   /\ nodeModules' = TRUE
                   /\ pyPc' = "build"
                   /\ UNCHANGED exitStatus
              ELSE /\ installResult' = "failed"
                   /\ pyPc' = "exited"
                   /\ exitStatus' = 1
                   /\ UNCHANGED nodeModules
    /\ UNCHANGED <<dist, buildResult, envPort, envHost, envPortAtStart, nodeState,
                   nodeExit, boundPort, boundHost, fs, unlinks, req>>

\* BuildProject treating a failed build like a failed install.
BuildProjectFatal ==
    /\ pyPc = "build"
    /\ IF dist
       THEN /\ buildResult' = "skipped"
            /\ pyPc' = "setenv"
            /\ UNCHANGED <<dist, exitStatus>>
       ELSE \E ok \in BOOLEAN :
              IF ok
              THEN /\ buildResult' = "ok"
                   /\ dist' = TRUE
                   /\ pyPc' = "setenv"
                   /\ UNCHANGED exitStatus
              ELSE /\ buildResult' = "failed"
                   /\ pyPc' = "exited"
                   /\ exitStatus' = 1
                   /\ UNCHANGED dist
    /\ UNCHANGED <<nodeModules, installResult, envPort, envHost,
                   envPortAtStart, nodeState, nodeExit, boundPort, boundHost, fs,
                   unlinks, req>>

\* if not os.path.exists("dist"): npm run build, a failure is only reported
BuildProject ==
    /\ pyPc = "build"
    /\ IF dist
       THEN /\ buildResult' = "skipped"
            /\ UNCHANGED dist
       ELSE \E ok \in BOOLEAN :
              IF ok
              THEN /\ buildResult' = "ok"
                   /\ dist' = TRUE
              ELSE /\ buildResult' = "failed"
                   /\ UNCHANGED dist
    /\ pyPc' = "setenv"
    /\ UNCHANGED <<exitStatus, nodeModules, installResult, envPort, envHost,
                   envPortAtStart, nodeState, nodeExit, boundPort, boundHost, fs,
                   unlinks, req>>

\* os.environ["PORT"] = "5000"; os.environ["HOST"] = "0.0.0.0"
SetEnvironment ==
    /\ pyPc = "setenv"
    /\ envPort' = "5000"
    /\ envHost' = "0.0.0.0"
    /\ pyPc' = "start"
    /\ UNCHANGED <<exitStatus, nodeModules, dist, installResult, buildResult,
                   envPortAtStart, nodeState, nodeExit, boundPort, boundHost, fs,
                   unlinks, req>>

\* subprocess.run(["node", "-e", ...], check=True): the child starts and the
\* wrapper waits for it.
StartServer ==
    /\ pyPc = "start"
    /\ nodeState = "notstarted"
    /\ nodeState' = "starting"
    /\ pyPc' = "wait"
    /\ UNCHANGED <<exitStatus, nodeModules, dist, installResult, buildResult,
                   envPort, envHost, envPortAtStart, nodeExit, boundPort,
                   boundHost, fs, unlinks, req>>

\* WrapperExit reporting success whatever the child returned.
WrapperExitZero(childStatus) == 0

\* The wrapper's exit status once the child has exited: CalledProcessError
\* (a non-zero status of the child) is caught and answered by sys.exit(1).
WrapperExit(childStatus) == IF childStatus # 0 THEN 1 ELSE 0

WaitServer ==
    /\ pyPc = "wait"
    /\ nodeState = "exited"
    /\ exitStatus' = WrapperExit(nodeExit)
    /\ pyPc' = "exited"
    /\ UNCHANGED <<nodeModules, dist, installResult, buildResult, envPort,
                   envHost, envPortAtStart, nodeState, nodeExit, boundPort,
                   boundHost, fs, unlinks, req>>

\* ----------------------------------------------------------- node server

\* PORT as an environment variable holds it.
PortNumber(s) ==
    CASE s = "5000" -> 5000
      [] s = "8080" -> 8080

\* ListenPort honouring the PORT the wrapper was started with.
ListenPortFromEnv ==
    IF envPortAtStart = "unset" THEN PORT ELSE PortNumber(envPortAtStart)

\* The port server.listen is given: the script's constant, not the environment.
ListenPort == PORT

\* server.listen(PORT, HOST, ...): no 'error' listener is registered, so a
\* bind failure is an uncaught exception and the child exits with status 1.
Listen ==
    /\ nodeState = "starting"
    /\ \E outcome \in {"ok", "EADDRINUSE", "EACCES"} :
         IF outcome = "ok"
         THEN /\ nodeState' = "listening"
              /\ boundPort' = ListenPort
              /\ boundHost' = HOST
              /\ UNCHANGED nodeExit
         ELSE /\ nodeState' = "exited"
              /\ nodeExit' = 1
              /\ UNCHANGED <<boundPort, boundHost>>
    /\ UNCHANGED <<wrapperVars, fs, unlinks, req>>

\* fs.existsSync(faviconPath): anything the path names counts.
ExistsSync(p) == Kind(p) # "none"

\* The request handler up to its first asynchronous call: the favicon branch
\* sets the header and starts the stream, every other request starts
\* fs.access on its own filePath. Requests are numbered as they arrive.
Request(r, url) ==
    /\ nodeState = "listening"
    /\ req[r].pc = "idle"
    /\ \A q \in Requests : q < r => req[q].pc # "idle"
    /\ IF url = UrlFavicon /\ ExistsSync(FaviconPath)
       THEN req' = [req EXCEPT ![r] =
                [@ EXCEPT !.pc = "stream", !.url = url,
                          !.contentType = "image/x-icon"]]
       ELSE req' = [req EXCEPT ![r] =
                [@ EXCEPT !.pc = "access", !.url = url,
                          !.filePath = ResolvePath(url)]]
    /\ UNCHANGED <<wrapperVars, nodeState, nodeExit, boundPort, boundHost, fs,
                   unlinks>>

\* FinalPath without the substitution of the index.
FinalPathNoFallback(filePath, accessErr) == filePath

\* The path the handler reads after fs.access has answered.
FinalPath(filePath, accessErr) == IF accessErr THEN IndexPath ELSE filePath

\* AccessCallback taking the content type from the requested path, before the
\* substitution of the index.
AccessCallbackEarlyType(r) ==
    /\ nodeState = "listening"
    /\ req[r].pc = "access"
    /\ LET accessErr == Kind(req[r].filePath) = "none"
           final == FinalPath(req[r].filePath, accessErr)
       IN  req' = [req EXCEPT ![r] =
                [@ EXCEPT !.pc = "read", !.existed = ~accessErr,
                          !.filePath = final,
                          !.contentType = ContentTypeOf(req[r].filePath)]]
    /\ UNCHANGED <<wrapperVars, nodeState, nodeExit, boundPort, boundHost, fs,
                   unlinks>>

\* Callback of fs.access(filePath, F_OK): a missing path is replaced by the
\* index, the content type is taken from the path that results, and
\* fs.readFile is started.
AccessCallback(r) ==
    /\ nodeState = "listening"
    /\ req[r].pc = "access"
    /\ LET accessErr == Kind(req[r].filePath) = "none"
           final == FinalPath(req[r].filePath, accessErr)
       IN  req' = [req EXCEPT ![r] =
                [@ EXCEPT !.pc = "read", !.existed = ~accessErr,
                          !.filePath = final,
                          !.contentType = ContentTypeOf(final)]]
    /\ UNCHANGED <<wrapperVars, nodeState, nodeExit, boundPort, boundHost, fs,
                   unlinks>>

\* Callback of fs.readFile(filePath): 500 and the error code on an error,
\* otherwise 200, the content type and the bytes.
ReadCallback(r) ==
    /\ nodeState = "listening"
    /\ req[r].pc = "read"
    /\ LET code == ReadError(req[r].filePath)
       IN  IF code # "none"
           THEN req' = [req EXCEPT ![r] =
                    [@ EXCEPT !.pc = "done", !.status = 500, !.err = code,
                              !.body = ErrorBody(code)]]
           ELSE req' = [req EXCEPT ![r] =
                    [@ EXCEPT !.pc = "done", !.status = 200,
                              !.header = req[r].contentType,
                              !.body = Content(req[r].filePath)]]
    /\ UNCHANGED <<wrapperVars, nodeState, nodeExit, boundPort, boundHost, fs,
                   unlinks>>

\* The requests after the process has died with request r's stream error:
\* r is the one that failed, every other request in flight loses its
\* connection unanswered.
AfterCrash(r, code) ==
    [q \in Requests |->
        IF q = r THEN [req[q] EXCEPT !.pc = "crashed", !.err = code]
        ELSE IF InFlight(q) THEN [req[q] EXCEPT !.pc = "reset"]
        ELSE req[q]]

\* fs.createReadStream(faviconPath).pipe(res): the bytes go out with the
\* header set before and the implicit status 200. The stream has no 'error'
\* listener: when the file cannot be opened or read, the error is thrown as
\* an uncaught exception and the process exits with status 1.
FaviconStream(r) ==
    /\ nodeState = "listening"
    /\ req[r].pc = "stream"
    /\ LET code == ReadError(FaviconPath)
       IN  IF code = "none"
           THEN /\ req' = [req EXCEPT ![r] =
                     [@ EXCEPT !.pc = "done", !.status = 200,
                               !.header = req[r].contentType,
                               !.body = Content(FaviconPath)]]
                /\ UNCHANGED <<nodeState, nodeExit>>
           ELSE /\ req' = AfterCrash(r, code)
                /\ nodeState' = "exited"
                /\ nodeExit' = 1
    /\ UNCHANGED <<wrapperVars, boundPort, boundHost, fs, unlinks>>

\* The files other processes remove while the server runs.
Removable == {IndexPath, FaviconPath, AppPath}

\* Another process removes a file of the server root.
Unlink(p) ==
    /\ nodeState = "listening"
    /\ unlinks < MaxUnlinks
    /\ Kind(p) \in {"file", "noperm"}
    /\ fs' = [fs EXCEPT ![p] = "none"]
    /\ unlinks' = unlinks + 1
    /\ UNCHANGED <<wrapperVars, nodeState, nodeExit, boundPort, boundHost, req>>

\* ------------------------------------------------------- specifications

\* The wrapper is started: any of the directories may be missing, PORT may be
\* set, the server root holds any of the contents.
InitStartup ==
    /\ pyPc = "install"
    /\ exitStatus = -1
    /\ nodeModules \in BOOLEAN
    /\ dist \in BOOLEAN
    /\ installResult = "pending"
    /\ buildResult = "pending"
    /\ envPort \in EnvPorts
    /\ envHost = "unset"
    /\ envPortAtStart = envPort
    /\ nodeState = "notstarted"
    /\ nodeExit = -1
    /\ boundPort = 0
    /\ boundHost = "unset"
    /\ fs \in FsChoices
    /\ unlinks = 0
    /\ req = [r \in Requests |-> IdleRequest]

\* The server is listening, the wrapper waits for it.
Init ==
    /\ pyPc = "wait"
    /\ exitStatus = -1
    /\ nodeModules = TRUE
    /\ dist = TRUE
    /\ installResult = "skipped"
    /\ buildResult = "skipped"
    /\ envPort = "5000"
    /\ envHost = "0.0.0.0"
    /\ envPortAtStart = "unset"
    /\ nodeState = "listening"
    /\ nodeExit = -1
    /\ boundPort = ListenPort
    /\ boundHost = HOST
    /\ fs \in FsChoices
    /\ unlinks = 0
    /\ req = [r \in Requests |-> IdleRequest]

Next ==
    \/ \E r \in Requests, url \in Urls : Request(r, url)
    \/ \E r \in Requests : AccessCallback(r)
    \/ \E r \in Requests : ReadCallback(r)
    \/ \E r \in Requests : FaviconStream(r)
    \/ \E p \in Removable : Unlink(p)
    \/ WaitServer

Spec == Init /\ [][Next]_vars

\* The start of the wrapper and of the server, up to its first request.
NextStartup ==
    \/ InstallDependencies
    \/ BuildProject
    \/ SetEnvironment
    \/ StartServer
    \/ Listen
    \/ \E url \in Urls : Request(1, url)
    \/ AccessCallback(1)
    \/ ReadCallback(1)
    \/ FaviconStream(1)
    \/ \E p \in Removable : Unlink(p)
    \/ WaitServer

StartupSpec == InitStartup /\ [][NextStartup]_vars

\* ------------------------------------------------------------- properties

Done(r) == req[r].pc = "done"

\* The request went through general handling (it has a filePath), not
\* through the favicon branch.
General(r) == req[r].filePath # <<>>

FaviconBranch(r) == req[r].pc # "idle" /\ ~General(r)

\* The MIME table of the interface description, by path of the server root.
TableType(p) ==
    CASE p = <<IndexName>> -> "text/html"
      [] p = <<AppName>> -> "application/javascript"
      [] p = <<LogoName>> -> "image/png"
      [] p = <<FaviconName>> -> "image/x-icon"
      [] OTHER -> "application/octet-stream"

\* The file a URL names under the server root.
NamedPath(url) ==
    CASE url = UrlRoot -> <<IndexName>>
      [] url = UrlDotDot -> <<AppName>>
      [] OTHER -> url

\* C1 as stated: every request but /favicon.ico whose path names no existing
\* file (it names nothing, or a directory, the index may be absent too) is
\* answered 200 with the contents of the root index file.
C1_FallbackAlways ==
    \A r \in Requests :
        ( /\ Done(r)
          /\ req[r].url # UrlFavicon
          /\ (~req[r].existed \/ Kind(NamedPath(req[r].url)) = "dir") )
        => /\ req[r].status = 200
           /\ req[r].body = Content(<<IndexName>>)

\* C1 amended: a request but /favicon.ico whose path names nothing when the
\* existence check runs is answered 200 with the index contents as text/html
\* whenever the index file can be read, and 500 naming the read error when it
\* cannot (ENOENT when it is absent, EACCES when it is unreadable); a path
\* naming a directory passes the existence check and is answered 500 naming
\* EISDIR.
C1_FallbackWhenNothingNamed ==
    \A r \in Requests :
        (Done(r) /\ req[r].url # UrlFavicon)
        => /\ ~req[r].existed =>
                /\ Kind(<<IndexName>>) = "file" => req[r].status = 200
                /\ req[r].status = 200 =>
                      /\ req[r].body = Content(<<IndexName>>)
                      /\ req[r].header = "text/html"
                /\ Kind(<<IndexName>>) = "noperm" =>
                      /\ req[r].status = 500
                      /\ req[r].body = ErrorBody("EACCES")
                /\ req[r].status # 200 =>
                      /\ req[r].status = 500
                      /\ req[r].body \in {ErrorBody("ENOENT"), ErrorBody("EACCES")}
           /\ Kind(NamedPath(req[r].url)) = "dir" =>
                /\ req[r].status = 500
                /\ req[r].body = ErrorBody("EISDIR")

C1_Witness ==
    \E r \in Requests :
        /\ Done(r)
        /\ req[r].url = UrlMissing
        /\ ~req[r].existed
        /\ req[r].status = 200
        /\ req[r].body = Content(<<IndexName>>)

\* C2 as stated: a read failure of any request, the favicon branch included,
\* is answered 500 with a body naming the error code, and the server keeps
\* listening.
C2_ReadFailureIs500 ==
    \A r \in Requests :
        req[r].err # "none"
        => /\ Done(r)
           /\ req[r].status = 500
           /\ req[r].body = ErrorBody(req[r].err)
           /\ nodeState = "listening"

\* C3 as stated: a request for the path of an existing file with a listed
\* extension is answered 200 with the table's content type and the file's
\* bytes.
C3_ListedFileServed ==
    \A r \in Requests :
        ( /\ Done(r)
          /\ Kind(NamedPath(req[r].url)) \in {"file", "noperm"}
          /\ TableType(NamedPath(req[r].url)) # "application/octet-stream" )
        => /\ req[r].status = 200
           /\ req[r].header = TableType(NamedPath(req[r].url))
           /\ req[r].body = Content(NamedPath(req[r].url))

\* C3 amended: a request for the path of an existing file with a listed
\* extension, unless it is /favicon.ico answered from the favicon asset, is
\* answered 200 with the table's content type and the file's bytes when the
\* file can be read, and 500 naming the error code when it cannot.
C3_ListedFileServedWhenReadable ==
    \A r \in Requests :
        ( /\ Done(r)
          /\ General(r)
          /\ TableType(NamedPath(req[r].url)) # "application/octet-stream" )
        => /\ Kind(NamedPath(req[r].url)) = "file" =>
                /\ req[r].status = 200
                /\ req[r].header = TableType(NamedPath(req[r].url))
                /\ req[r].body = Content(NamedPath(req[r].url))
           /\ Kind(NamedPath(req[r].url)) = "noperm" =>
                /\ req[r].status = 500
                /\ req[r].body = ErrorBody("EACCES")

C3_Witness ==
    \E r \in Requests :
        /\ Done(r)
        /\ req[r].url = UrlLogo
        /\ req[r].status = 200
        /\ req[r].header = "image/png"
        /\ req[r].body = Content(<<LogoName>>)

\* C4 as stated: a /favicon.ico request made while the favicon asset exists
\* is answered with the asset's bytes as image/x-icon, whatever the root
\* holds; made while the asset does not exist it goes through general
\* handling (the root favicon.ico when there is one, else the index).
C4_FaviconAnswered ==
    \A r \in Requests :
        (req[r].url = UrlFavicon /\ req[r].pc # "idle" /\ ~InFlight(r))
        => IF FaviconBranch(r)
           THEN /\ Done(r)
                /\ req[r].status = 200
                /\ req[r].header = "image/x-icon"
                /\ req[r].body = Content(<<DirName, IconsName, FaviconName>>)
           ELSE req[r].filePath =
                    IF req[r].existed THEN <<FaviconName>> ELSE <<IndexName>>

\* C5 as stated: the server listens on 5000 unless PORT is set when the
\* wrapper starts, and then on the port PORT names.
C5_PortFromEnvironment ==
    nodeState = "listening"
    => boundPort = IF envPortAtStart = "unset" THEN 5000
                   ELSE PortNumber(envPortAtStart)

\* C5 amended: the server listens on port 5000 of host 0.0.0.0 whatever PORT
\* held when the wrapper started; the wrapper overwrites PORT with 5000
\* before it starts the server.
C5_PortAlways5000 ==
    nodeState = "listening"
    => /\ boundPort = 5000
       /\ boundHost = "0.0.0.0"
       /\ envPort = "5000"

C5_Witness ==
    /\ nodeState = "listening"
    /\ envPortAtStart = "8080"
    /\ boundPort = 5000

\* The server never bound its port and its process is gone.
BindFailed == nodeState = "exited" /\ boundPort = 0

\* C6: when the server cannot bind, the node child has exited with a
\* non-zero status, no request was or will be accepted or answered, the
\* wrapper does nothing but collect the child, and it exits with status 1.
C6_BindFailureFatal ==
    BindFailed
    => /\ nodeExit # 0
       /\ \A r \in Requests : req[r].pc = "idle"
       /\ ~ENABLED (\E r \in Requests, url \in Urls : Request(r, url))
       /\ pyPc \in {"wait", "exited"}
       /\ pyPc = "wait" => ENABLED WaitServer
       /\ pyPc = "exited" => exitStatus = 1

C6_Witness ==
    /\ BindFailed
    /\ pyPc = "exited"
    /\ exitStatus = 1

\* C7: every 200 response of general handling carries the content type of
\* the lowercased extension of the path finally read, not of the requested
\* one: / and every path that named nothing get text/html with the index
\* contents, an existing file gets its table entry, and
\* application/octet-stream when its extension is not listed.
C7_TypeOfFinalPath ==
    \A r \in Requests :
        (Done(r) /\ General(r) /\ req[r].status = 200)
        => IF req[r].url = UrlRoot \/ ~req[r].existed
           THEN /\ req[r].header = "text/html"
                /\ req[r].body = Content(<<IndexName>>)
           ELSE /\ req[r].header = TableType(NamedPath(req[r].url))
                /\ req[r].body = Content(NamedPath(req[r].url))
                /\ req[r].url = UrlData
                      => req[r].header = "application/octet-stream"
                /\ req[r].url = UrlLogo => req[r].header = "image/png"

C7_Witness ==
    \E r \in Requests :
        /\ Done(r)
        /\ req[r].url = UrlMissing
        /\ req[r].status = 200
        /\ req[r].header = "text/html"
        /\ req[r].body = Content(<<IndexName>>)

\* A response is the one its own URL and the files decide: the index, the
\* file the URL names, the favicon asset for /favicon.ico, or a read error.
OwnResponse(r) ==
    Done(r)
    => \/ /\ req[r].status = 200
          /\ req[r].body \in
                {Content(<<IndexName>>), Content(NamedPath(req[r].url))}
       \/ /\ req[r].status = 200
          /\ req[r].url = UrlFavicon
          /\ req[r].body = Content(<<DirName, IconsName, FaviconName>>)
       \/ /\ req[r].status = 500
          /\ req[r].body = ErrorBody(req[r].err)

\* C8 as stated: requests are independent under every interleaving: each
\* response is decided by the request's own URL and the files, and no step
\* taken for one request changes what becomes of another.
C8_RequestsIndependent ==
    [][ /\ \A r \in Requests : OwnResponse(r)'
        /\ \A r, q \in Requests :
              (r # q /\ req'[r] # req[r]) => req'[q] = req[q] ]_vars

\* C9: install, build and server start happen in this order; the install
\* runs only when node_modules is absent and its failure ends the wrapper
\* with status 1 before any build or server start; the build runs only when
\* dist is absent and its failure lets the wrapper go on; the server is
\* started with the same port, host and environment whatever the build did.
C9_StartupOrder ==
    [][ /\ (installResult = "pending" /\ installResult' \in {"ok", "failed"})
              => ~nodeModules
        /\ (installResult = "pending" /\ installResult' = "skipped")
              => nodeModules
        /\ (installResult = "pending" /\ installResult' # "pending")
              => (buildResult = "pending" /\ nodeState = "notstarted")
        /\ installResult' = "failed"
              => /\ pyPc' = "exited"
                 /\ exitStatus' = 1
                 /\ buildResult' = "pending"
                 /\ nodeState' = "notstarted"
        /\ (buildResult = "pending" /\ buildResult' \in {"ok", "failed"})
              => ~dist
        /\ (buildResult = "pending" /\ buildResult' = "skipped")
              => dist
        /\ (buildResult = "pending" /\ buildResult' # "pending")
              => /\ installResult \in {"skipped", "ok"}
                 /\ nodeState = "notstarted"
                 /\ pyPc' = "setenv"
                 /\ exitStatus' = exitStatus
        /\ (nodeState = "notstarted" /\ nodeState' # "notstarted")
              => /\ installResult \in {"skipped", "ok"}
                 /\ buildResult \in {"skipped", "ok", "failed"}
                 /\ envPort = "5000"
                 /\ envHost = "0.0.0.0"
        /\ nodeState' = "listening"
              => (boundPort' = 5000 /\ boundHost' = "0.0.0.0") ]_vars

C9_Witness ==
    /\ buildResult = "failed"
    /\ nodeState = "listening"
    /\ \E r \in Requests : Done(r) /\ req[r].status = 200

\* C10 as stated, for the runs that end: every request the server accepted
\* has been answered, once, when nothing more can happen to it.
C10_EveryRequestAnswered ==
    \A r \in Requests :
        (req[r].pc # "idle" /\ ~InFlight(r))
        => /\ Done(r)
           /\ req[r].status \in {200, 500}

=============================================================================
